---- MODULE Spec2Model ----
(***************************************************************************)
(* Model of the S&P 500 sector deviation analysis (LBJANU/sp_model):       *)
(* data_fetcher.py (price retrieval and date alignment),                   *)
(* returns_calculator.py (returns, cleaning, deviation returns),           *)
(* visualizer.py (chart artifacts) and main.py (the run).                  *)
(*                                                                         *)
(* Numbers are exact rationals <<n, d>> with d > 0, kept in lowest terms;  *)
(* the not-a-number marker of pandas is the pair <<0, 0>>.                 *)
(***************************************************************************)
EXTENDS Integers, Sequences, FiniteSets, TLC

\* ------------------------------------------------------------------ bounds
MaxDate    == 3      \* dates of the tables given to the Returns Engine alone
MaxRunDate == 2      \* trading dates of a run of main() are 1..MaxRunDate
MaxPrice   == 2      \* closing prices are 1..MaxPrice
NumSectors == 2      \* number of entries of SECTOR_TICKERS kept in the model
MaxWindow  == 3      \* windows passed to a moving-average plot are 1..MaxWindow

Dates    == 1..MaxDate
RunDates == 1..MaxRunDate
Prices   == 1..MaxPrice

\* ------------------------------------------------------- program constants
SPY_TICKER == 0
SECTOR_TICKERS == [i \in 1..NumSectors |-> i]
Window50  == 50
Window100 == 100
Window170 == 170

\* ------------------------------------------------------------- arithmetic
NaN  == <<0, 0>>
IsNaN(v) == v[2] = 0

Abs(n) == IF n < 0 THEN -n ELSE n

RECURSIVE Gcd(_, _)
Gcd(a, b) == IF b = 0 THEN a ELSE Gcd(b, a % b)

Norm(n, d) ==
    LET s == IF d < 0 THEN -1 ELSE 1
        g == Gcd(Abs(n), Abs(d))
    IN  <<(s * n) \div g, (s * d) \div g>>

Num(p) == <<p, 1>>
Zero   == Num(0)
One    == Num(1)

\* float subtraction: NaN if either operand is NaN
Sub(a, b) ==
    IF IsNaN(a) \/ IsNaN(b) THEN NaN
    ELSE Norm(a[1] * b[2] - b[1] * a[2], a[2] * b[2])

Add(a, b) ==
    IF IsNaN(a) \/ IsNaN(b) THEN NaN
    ELSE Norm(a[1] * b[2] + b[1] * a[2], a[2] * b[2])

\* float division by a non-zero number: NaN if either operand is NaN
Div(a, b) ==
    IF IsNaN(a) \/ IsNaN(b) THEN NaN
    ELSE Norm(a[1] * b[2], a[2] * b[1])

\* ------------------------------------------------------ series and tables
\* A Series is [index, val]: index a sequence of dates, val a function on
\* the dates of the index.  A DataFrame is [index, columns, val] with
\* val[c][d] the cell of column c at date d.
Range(s) == {s[i] : i \in 1..Len(s)}

IsFrame(t) == "columns" \in DOMAIN t

EmptySeries == [index |-> <<>>, val |-> <<>>]
EmptyFrame  == [index |-> <<>>, columns |-> <<>>, val |-> <<>>]

RECURSIVE SortedSeq(_)
SortedSeq(S) ==
    IF S = {} THEN <<>>
    ELSE LET m == CHOOSE x \in S : \A y \in S : x <= y
         IN  <<m>> \o SortedSeq(S \ {m})

Pos(idx, d) == CHOOSE i \in 1..Len(idx) : idx[i] = d

\* Series.reindex / DataFrame.reindex: new index, NaN where no label
reindex(t, idx) ==
    IF IsFrame(t)
    THEN [index |-> idx, columns |-> t.columns,
          val |-> [c \in Range(t.columns) |->
                     [d \in Range(idx) |->
                        IF d \in Range(t.index) THEN t.val[c][d] ELSE NaN]]]
    ELSE [index |-> idx,
          val |-> [d \in Range(idx) |->
                     IF d \in Range(t.index) THEN t.val[d] ELSE NaN]]

\* column c of a DataFrame as a Series
Column(t, c) == [index |-> t.index, val |-> t.val[c]]

\* forward fill: the last defined value at or before position i
RECURSIVE Ffill(_, _)
Ffill(s, i) ==
    IF i = 0 THEN NaN
    ELSE IF ~IsNaN(s.val[s.index[i]]) THEN s.val[s.index[i]]
    ELSE Ffill(s, i - 1)

\* variant: the change divided by today's price instead of yesterday's
pct_change_over_today(s, fm) ==
    LET data(i)    == IF fm = "pad" THEN Ffill(s, i) ELSE s.val[s.index[i]]
        shifted(i) == IF i = 1 THEN NaN ELSE data(i - 1)
    IN  [index |-> s.index,
         val |-> [d \in Range(s.index) |->
                    LET i == Pos(s.index, d)
                    IN  Div(Sub(data(i), shifted(i)), data(i))]]

\* Series.pct_change() with the library's default fill method:
\* data = self filled (or not); rs = data / data.shift(1) - 1
pct_change_series(s, fm) ==
    LET data(i)    == IF fm = "pad" THEN Ffill(s, i) ELSE s.val[s.index[i]]
        shifted(i) == IF i = 1 THEN NaN ELSE data(i - 1)
    IN  [index |-> s.index,
         val |-> [d \in Range(s.index) |->
                    LET i == Pos(s.index, d)
                    IN  Sub(Div(data(i), shifted(i)), One)]]

pct_change(t, fm) ==
    IF IsFrame(t)
    THEN [index |-> t.index, columns |-> t.columns,
          val |-> [c \in Range(t.columns) |->
                     pct_change_series(Column(t, c), fm).val]]
    ELSE pct_change_series(t, fm)

calculate_returns(prices, fm) == pct_change(prices, fm)

\* a row of a table holds an undefined value
RowHasNaN(t, d) ==
    IF IsFrame(t) THEN \E c \in Range(t.columns) : IsNaN(t.val[c][d])
    ELSE IsNaN(t.val[d])

\* the rows of t at the labels idx, in the order of idx
loc(t, idx) ==
    IF IsFrame(t)
    THEN [index |-> idx, columns |-> t.columns,
          val |-> [c \in Range(t.columns) |->
                     [d \in Range(idx) |-> t.val[c][d]]]]
    ELSE [index |-> idx, val |-> [d \in Range(idx) |-> t.val[d]]]

\* variant: drop the first row only, whatever it holds
drop_first_row(returns) ==
    loc(returns, IF returns.index = <<>> THEN <<>> ELSE Tail(returns.index))

\* variant: drop a row only when all its cells are NaN
dropna_how_all(t) ==
    LET keep(d) == IF IsFrame(t)
                   THEN \E c \in Range(t.columns) : ~IsNaN(t.val[c][d])
                   ELSE ~IsNaN(t.val[d])
    IN  loc(t, SelectSeq(t.index, keep))

\* DataFrame.dropna() / Series.dropna(): drop every row with a NaN
dropna(t) ==
    LET keep(d) == ~RowHasNaN(t, d)
    IN  loc(t, SelectSeq(t.index, keep))

clean_returns_data(returns) == dropna(returns)

\* Index.intersection: the labels of a that are in b, in order
intersection(a, b) ==
    LET common(d) == d \in Range(b)
    IN  SelectSeq(a, common)

\* variant: the benchmark return added instead of subtracted
deviation_added(sector_returns, spy_returns) ==
    LET common_dates == intersection(sector_returns.index, spy_returns.index)
    IN  [index |-> common_dates, columns |-> sector_returns.columns,
         val |-> [c \in Range(sector_returns.columns) |->
                    [d \in Range(common_dates) |->
                       Add(sector_returns.val[c][d], spy_returns.val[d])]]]

\* variant: every date of the sector table kept, NaN where the benchmark
\* has none
deviation_on_sector_dates(sector_returns, spy_returns) ==
    [index |-> sector_returns.index, columns |-> sector_returns.columns,
     val |-> [c \in Range(sector_returns.columns) |->
                [d \in Range(sector_returns.index) |->
                   IF d \in Range(spy_returns.index)
                   THEN Sub(sector_returns.val[c][d], spy_returns.val[d])
                   ELSE NaN]]]

calculate_deviation_returns(sector_returns, spy_returns) ==
    LET common_dates == intersection(sector_returns.index, spy_returns.index)
        sector_returns_aligned == loc(sector_returns, common_dates)
        spy_returns_aligned    == loc(spy_returns, common_dates)
    IN  [index |-> common_dates, columns |-> sector_returns.columns,
         val |-> [c \in Range(sector_returns.columns) |->
                    [d \in Range(common_dates) |->
                       Sub(sector_returns_aligned.val[c][d],
                           spy_returns_aligned.val[d])]]]

\* DataFrame.rolling(window).mean(): mean of the last `window` rows of each
\* column, NaN until `window` rows are available or if one of them is NaN
RECURSIVE SumLast(_, _, _, _)
SumLast(t, c, i, n) ==
    IF n = 0 THEN Zero
    ELSE Add(t.val[c][t.index[i]], SumLast(t, c, i - 1, n - 1))

rolling_mean(t, window) ==
    [index |-> t.index, columns |-> t.columns,
     val |-> [c \in Range(t.columns) |->
                [d \in Range(t.index) |->
                   LET i == Pos(t.index, d)
                   IN  IF i < window THEN NaN
                       ELSE Div(SumLast(t, c, i, window), Num(window))]]]

\* -------------------------------------------------- summary statistics
\* the defined values of a series, in the order of its index (skipna)
Values(s) ==
    LET defined(v) == ~IsNaN(v)
    IN  SelectSeq([k \in 1..Len(s.index) |-> s.val[s.index[k]]], defined)

Mul(a, b) ==
    IF IsNaN(a) \/ IsNaN(b) THEN NaN
    ELSE Norm(a[1] * b[1], a[2] * b[2])

\* a < b on defined numbers; every comparison with NaN is false
Less(a, b) == ~IsNaN(a) /\ ~IsNaN(b) /\ a[1] * b[2] < b[1] * a[2]

RECURSIVE SumSeq(_)
SumSeq(q) == IF q = <<>> THEN Zero ELSE Add(Head(q), SumSeq(Tail(q)))

mean(s) ==
    LET q == Values(s)
    IN  IF q = <<>> THEN NaN ELSE Div(SumSeq(q), Num(Len(q)))

\* std() is the square root of the sample variance (ddof = 1), NaN when
\* fewer than two values are defined
std(s) ==
    LET q == Values(s)
        m == mean(s)
        sq == [k \in 1..Len(q) |-> Mul(Sub(q[k], m), Sub(q[k], m))]
    IN  [sqrt_of |-> IF Len(q) < 2 THEN NaN
                     ELSE Div(SumSeq(sq), Num(Len(q) - 1))]

min(s) ==
    LET q == Values(s)
    IN  IF q = <<>> THEN NaN
        ELSE CHOOSE v \in Range(q) : \A w \in Range(q) : ~Less(w, v)

max(s) ==
    LET q == Values(s)
    IN  IF q = <<>> THEN NaN
        ELSE CHOOSE v \in Range(q) : \A w \in Range(q) : ~Less(v, w)

\* the line printed under a deviation column
label(mean_dev) ==
    IF Less(Zero, mean_dev) THEN "outperformed"
    ELSE IF Less(mean_dev, Zero) THEN "underperformed"
    ELSE "matched"

\* what get_returns_summary prints: five statistics of the benchmark, mean
\* and std of every sector column, mean, std and label of every deviation
\* column
get_returns_summary(spy, sectors, deviations) ==
    [spy |-> [count |-> Len(spy.index), mean |-> mean(spy), std |-> std(spy),
              min |-> min(spy), max |-> max(spy)],
     sector |-> [c \in Range(sectors.columns) |->
                   [mean |-> mean(Column(sectors, c)),
                    std |-> std(Column(sectors, c))]],
     deviation |-> [c \in Range(deviations.columns) |->
                      [mean |-> mean(Column(deviations, c)),
                       std |-> std(Column(deviations, c)),
                       label |-> label(mean(Column(deviations, c)))]]]

\* ------------------------------------------------------------ price source
\* Closing price the market quotes for ticker t on date d.
Close(t, d) == 1 + (((t + 1) * d) % MaxPrice)

\* What one call of Ticker(t).history() can do: raise, return zero rows, or
\* return the closing prices of a non-empty set of trading dates.
Responses ==
    {[kind |-> k, dates |-> {}] : k \in {"raise", "empty"}}
    \cup {[kind |-> "data", dates |-> S] : S \in (SUBSET RunDates) \ {{}}}

history(t, r) ==
    [index |-> SortedSeq(r.dates),
     val |-> [d \in r.dates |-> Num(Close(t, d))]]

\* pd.DataFrame(dict of Series): one column per key in insertion order, over
\* the sorted union of the indexes, NaN where a Series has no label
DataFrame(dict) ==
    LET all == UNION {Range(dict.val[k].index) : k \in Range(dict.keys)}
        idx == SortedSeq(all)
    IN  [index |-> idx, columns |-> dict.keys,
         val |-> [k \in Range(dict.keys) |-> reindex(dict.val[k], idx).val]]

EmptyDict == [keys |-> <<>>, val |-> <<>>]

\* ------------------------------------------------------------------ state
VARIABLES
    pc,                 \* position of the run in main()
    error,              \* the exception that ended the run, "" if none
    fill_method,        \* fill method pct_change defaults to in this build,
                        \* "unknown" until pct_change is first called
    requests,           \* number of history() calls made per ticker
    responded,          \* what the last history() call of each ticker did
    quoted,             \* the dates on which history() quoted each ticker
    i,                  \* position of the loop of fetch_sector_data
    sector_data,        \* dict of fetch_sector_data
    failed_tickers,     \* list of fetch_sector_data
    warning,            \* the sectors listed by the printed warning
    spy_prices, sector_prices,
    spy_returns, sector_returns, deviation_returns,
    artifacts,          \* files written so far, in order
    eng_op, eng_in, eng_bench, eng_out,  \* one Returns Engine call
    summary,            \* what get_returns_summary printed, <<>> before
    fig,                \* traces of the figure a moving-average plot returned
    ma_window           \* window of the last moving-average plot, 0 before

vars == <<pc, error, fill_method, requests, responded, quoted, i, sector_data,
          failed_tickers, warning, spy_prices, sector_prices, spy_returns, sector_returns,
          deviation_returns, artifacts, eng_op, eng_in, eng_bench, eng_out,
          summary, fig, ma_window>>

engVars  == <<eng_op, eng_in, eng_bench, eng_out>>
reportVars == <<summary, fig, ma_window>>
dataVars == <<spy_prices, sector_prices, spy_returns, sector_returns,
              deviation_returns>>
fetchVars == <<requests, responded, quoted, i, sector_data, failed_tickers,
              warning>>

FillMethods == {"pad", "none"}

Tickers == {SPY_TICKER} \cup Range(SECTOR_TICKERS)

Init ==
    /\ pc = "fetch_spy"
    /\ error = ""
    /\ fill_method = "unknown"
    /\ requests = [t \in Tickers |-> 0]
    /\ responded = [t \in Tickers |-> "none"]
    /\ quoted = [t \in Tickers |-> {}]
    /\ i = 1
    /\ sector_data = EmptyDict
    /\ failed_tickers = <<>>
    /\ warning = <<>>
    /\ spy_prices = EmptySeries
    /\ sector_prices = EmptyFrame
    /\ spy_returns = EmptySeries
    /\ sector_returns = EmptyFrame
    /\ deviation_returns = EmptyFrame
    /\ artifacts = <<>>
    /\ eng_op = "none"
    /\ eng_in = EmptyFrame
    /\ eng_bench = EmptySeries
    /\ eng_out = EmptyFrame
    /\ summary = <<>>
    /\ fig = EmptyFrame
    /\ ma_window = 0

\* --------------------------------------------------------- data_fetcher.py
\* an exception leaves main() uncaught and ends the run
Raise(msg) ==
    /\ pc' = "error"
    /\ error' = msg

\* variant: a failed benchmark fetch is swallowed and the run goes on to the
\* sectors with an empty benchmark series
fetch_spy_data_swallowed ==
    /\ pc = "fetch_spy"
    /\ \E r \in Responses :
         /\ requests' = [requests EXCEPT ![SPY_TICKER] = @ + 1]
         /\ responded' = [responded EXCEPT ![SPY_TICKER] = r.kind]
         /\ quoted' = [quoted EXCEPT ![SPY_TICKER] = r.dates]
         /\ spy_prices' = IF r.kind = "data" THEN history(SPY_TICKER, r)
                          ELSE spy_prices
         /\ pc' = "fetch_sectors"
         /\ error' = error
    /\ UNCHANGED <<fill_method, i, sector_data, failed_tickers, warning,
                   sector_prices, spy_returns, sector_returns,
                   deviation_returns, artifacts, engVars, reportVars>>

fetch_spy_data ==
    /\ pc = "fetch_spy"
    /\ \E r \in Responses :
         /\ requests' = [requests EXCEPT ![SPY_TICKER] = @ + 1]
         /\ responded' = [responded EXCEPT ![SPY_TICKER] = r.kind]
         /\ quoted' = [quoted EXCEPT ![SPY_TICKER] = r.dates]
         /\ IF r.kind = "data"
            THEN /\ spy_prices' = history(SPY_TICKER, r)
                 /\ pc' = "fetch_sectors"
                 /\ error' = error
            ELSE /\ Raise("Error fetching S&P 500 data")
                 /\ spy_prices' = spy_prices
    /\ UNCHANGED <<fill_method, i, sector_data, failed_tickers, warning,
                   sector_prices, spy_returns, sector_returns,
                   deviation_returns, artifacts, engVars, reportVars>>

\* variant: a failed sector fetch is not caught and ends the run
fetch_sector_step_uncaught ==
    /\ pc = "fetch_sectors"
    /\ i <= Len(SECTOR_TICKERS)
    /\ LET ticker == SECTOR_TICKERS[i]
       IN  \E r \in Responses :
             /\ requests' = [requests EXCEPT ![ticker] = @ + 1]
             /\ responded' = [responded EXCEPT ![ticker] = r.kind]
             /\ quoted' = [quoted EXCEPT ![ticker] = r.dates]
             /\ IF r.kind = "data"
                THEN /\ sector_data' =
                          [keys |-> Append(sector_data.keys, ticker),
                           val  |-> [k \in Range(sector_data.keys) \cup {ticker} |->
                                       IF k = ticker THEN history(ticker, r)
                                       ELSE sector_data.val[k]]]
                     /\ UNCHANGED <<pc, error>>
                ELSE /\ Raise("Error fetching sector data")
                     /\ sector_data' = sector_data
    /\ i' = i + 1
    /\ UNCHANGED <<fill_method, failed_tickers, warning, dataVars, artifacts,
                   engVars, reportVars>>

\* variant: a failed sector fetch is tried a second time before giving up
fetch_sector_step_retry ==
    /\ pc = "fetch_sectors"
    /\ i <= Len(SECTOR_TICKERS)
    /\ LET ticker == SECTOR_TICKERS[i]
       IN  \E r \in Responses :
             /\ requests' = [requests EXCEPT ![ticker] = @ + 1]
             /\ responded' = [responded EXCEPT ![ticker] = r.kind]
             /\ quoted' = [quoted EXCEPT ![ticker] = r.dates]
             /\ IF r.kind = "data"
                THEN /\ sector_data' =
                          [keys |-> Append(sector_data.keys, ticker),
                           val  |-> [k \in Range(sector_data.keys) \cup {ticker} |->
                                       IF k = ticker THEN history(ticker, r)
                                       ELSE sector_data.val[k]]]
                     /\ failed_tickers' = failed_tickers
                     /\ i' = i + 1
                ELSE IF requests[ticker] = 0
                THEN UNCHANGED <<sector_data, failed_tickers, i>>
                ELSE /\ failed_tickers' = Append(failed_tickers, ticker)
                     /\ sector_data' = sector_data
                     /\ i' = i + 1
    /\ UNCHANGED <<pc, error, fill_method, warning, dataVars, artifacts,
                   engVars, reportVars>>

\* one iteration of the loop over SECTOR_TICKERS
\* variant: a response without rows is kept as a column
fetch_sector_step_keeps_empty ==
    /\ pc = "fetch_sectors"
    /\ i <= Len(SECTOR_TICKERS)
    /\ LET ticker == SECTOR_TICKERS[i]
       IN  \E r \in Responses :
             /\ requests' = [requests EXCEPT ![ticker] = @ + 1]
             /\ responded' = [responded EXCEPT ![ticker] = r.kind]
             /\ quoted' = [quoted EXCEPT ![ticker] = r.dates]
             /\ IF r.kind \in {"data", "empty"}
                THEN /\ sector_data' =
                          [keys |-> Append(sector_data.keys, ticker),
                           val  |-> [k \in Range(sector_data.keys) \cup {ticker} |->
                                       IF k = ticker THEN history(ticker, r)
                                       ELSE sector_data.val[k]]]
                     /\ failed_tickers' = failed_tickers
                ELSE /\ failed_tickers' = Append(failed_tickers, ticker)
                     /\ sector_data' = sector_data
    /\ i' = i + 1
    /\ UNCHANGED <<pc, error, fill_method, warning, dataVars, artifacts,
                   engVars, reportVars>>

fetch_sector_step ==
    /\ pc = "fetch_sectors"
    /\ i <= Len(SECTOR_TICKERS)
    /\ LET ticker == SECTOR_TICKERS[i]
       IN  \E r \in Responses :
             /\ requests' = [requests EXCEPT ![ticker] = @ + 1]
             /\ responded' = [responded EXCEPT ![ticker] = r.kind]
             /\ quoted' = [quoted EXCEPT ![ticker] = r.dates]
             /\ IF r.kind = "data"
                THEN /\ sector_data' =
                          [keys |-> Append(sector_data.keys, ticker),
                           val  |-> [k \in Range(sector_data.keys) \cup {ticker} |->
                                       IF k = ticker THEN history(ticker, r)
                                       ELSE sector_data.val[k]]]
                     /\ failed_tickers' = failed_tickers
                ELSE /\ failed_tickers' = Append(failed_tickers, ticker)
                     /\ sector_data' = sector_data
    /\ i' = i + 1
    /\ UNCHANGED <<pc, error, fill_method, warning, dataVars, artifacts,
                   engVars, reportVars>>

\* variant: no check that at least one sector was fetched
fetch_sector_end_unchecked ==
    /\ pc = "fetch_sectors"
    /\ i > Len(SECTOR_TICKERS)
    /\ warning' = failed_tickers
    /\ sector_prices' = DataFrame(sector_data)
    /\ pc' = "align"
    /\ UNCHANGED <<error, fill_method, requests, responded, quoted, i,
                   sector_data,
                   failed_tickers, spy_prices, spy_returns, sector_returns,
                   deviation_returns, artifacts, engVars, reportVars>>

\* after the loop: fatal if nothing was fetched, else warn and build the table
fetch_sector_end ==
    /\ pc = "fetch_sectors"
    /\ i > Len(SECTOR_TICKERS)
    /\ IF sector_data.keys = <<>>
       THEN /\ Raise("Failed to fetch data for all sectors")
            /\ UNCHANGED <<warning, sector_prices>>
       ELSE /\ warning' = failed_tickers
            /\ sector_prices' = DataFrame(sector_data)
            /\ pc' = "align"
            /\ error' = error
    /\ UNCHANGED <<fill_method, requests, responded, quoted, i,
                   sector_data,
                   failed_tickers, spy_prices, spy_returns, sector_returns,
                   deviation_returns, artifacts, engVars, reportVars>>

\* variant: both results put on the dates of the benchmark only
fetch_all_data_align_to_spy ==
    /\ pc = "align"
    /\ LET all_dates == spy_prices.index
       IN  /\ spy_prices' = reindex(spy_prices, all_dates)
           /\ sector_prices' = reindex(sector_prices, all_dates)
    /\ pc' = "data_info"
    /\ UNCHANGED <<error, fill_method, fetchVars, spy_returns,
                   sector_returns, deviation_returns, artifacts, engVars, reportVars>>

\* fetch_all_data: put both results on the union of their dates
fetch_all_data_align ==
    /\ pc = "align"
    /\ LET all_dates == SortedSeq(Range(spy_prices.index)
                                  \cup Range(sector_prices.index))
       IN  /\ spy_prices' = reindex(spy_prices, all_dates)
           /\ sector_prices' = reindex(sector_prices, all_dates)
    /\ pc' = "data_info"
    /\ UNCHANGED <<error, fill_method, fetchVars, spy_returns,
                   sector_returns, deviation_returns, artifacts, engVars, reportVars>>

\* get_data_info and inspect_sector_data only print
data_info ==
    /\ pc = "data_info"
    /\ pc' = "returns"
    /\ UNCHANGED <<error, fill_method, fetchVars, dataVars, artifacts,
                   engVars, reportVars>>

\* ------------------------------------------------------------ visualizer.py
Write(save_path) == artifacts' = Append(artifacts, save_path)

\* the three plotly charts that always write their HTML file
plot_plotly(at, next, save_path) ==
    /\ pc = at
    /\ Write(save_path)
    /\ pc' = next
    /\ UNCHANGED <<error, fill_method, fetchVars, dataVars, engVars, reportVars>>

\* DataFrame.empty: no row or no column
empty(t) == t.index = <<>> \/ t.columns = <<>>

\* moving average of the deviation table; no file when it has no row
moving_average(deviation, window) == dropna(rolling_mean(deviation, window))

\* variant: the file is written even when the figure is empty
plot_moving_average_always_saved(at, next, window, save_path) ==
    /\ pc = at
    /\ LET moving_avg == moving_average(deviation_returns, window)
       IN  /\ fig' = IF empty(moving_avg) THEN EmptyFrame ELSE moving_avg
           /\ Write(save_path)
    /\ ma_window' = window
    /\ pc' = next
    /\ UNCHANGED <<error, fill_method, fetchVars, dataVars, engVars, summary>>

plot_moving_average(at, next, window, save_path) ==
    /\ pc = at
    /\ LET moving_avg == moving_average(deviation_returns, window)
       IN  IF empty(moving_avg)
           THEN /\ fig' = EmptyFrame
                /\ artifacts' = artifacts
           ELSE /\ fig' = moving_avg
                /\ Write(save_path)
    /\ ma_window' = window
    /\ pc' = next
    /\ UNCHANGED <<error, fill_method, fetchVars, dataVars, engVars, summary>>

\* the matplotlib charts that always save their PNG file
plot_matplotlib(at, next, save_path) ==
    /\ pc = at
    /\ Write(save_path)
    /\ pc' = next
    /\ UNCHANGED <<error, fill_method, fetchVars, dataVars, engVars, reportVars>>

\* plot_sector_subplots: with a single sector, axes is wrapped in a list
\* although plt.subplots returned an array of n_cols axes, and axes[0].plot
\* raises AttributeError before anything is saved
plot_sector_subplots ==
    /\ pc = "plot_sector_subplots"
    /\ LET n_sectors == Len(deviation_returns.columns)
       IN  IF n_sectors > 1
           THEN /\ Write("sector_subplots.png")
                /\ pc' = "done"
                /\ error' = error
           ELSE /\ Raise("AttributeError")
                /\ artifacts' = artifacts
    /\ UNCHANGED <<fill_method, fetchVars, dataVars, engVars, reportVars>>

plot_deviation_returns_plotly ==
    plot_plotly("plot_deviation_returns_plotly",
                "plot_cumulative_deviations_plotly", "sector_deviations.html")
plot_cumulative_deviations_plotly ==
    plot_plotly("plot_cumulative_deviations_plotly",
                "plot_sector_subplots_plotly", "cumulative_deviations.html")
plot_sector_subplots_plotly ==
    plot_plotly("plot_sector_subplots_plotly",
                "plot_moving_average_plotly_50day", "sector_subplots.html")
plot_moving_average_plotly_50day ==
    plot_moving_average("plot_moving_average_plotly_50day",
                        "plot_moving_average_plotly_100day",
                        Window50, "moving_average_50day.html")
plot_moving_average_plotly_100day ==
    plot_moving_average("plot_moving_average_plotly_100day",
                        "plot_moving_average_plotly_170day",
                        Window100, "moving_average_100day.html")
plot_moving_average_plotly_170day ==
    plot_moving_average("plot_moving_average_plotly_170day",
                        "plot_deviation_returns",
                        Window170, "moving_average_170day.html")
plot_deviation_returns ==
    plot_matplotlib("plot_deviation_returns", "plot_cumulative_deviations",
                    "sector_deviations.png")
plot_cumulative_deviations ==
    plot_matplotlib("plot_cumulative_deviations", "plot_sector_subplots",
                    "cumulative_deviations.png")

\* ------------------------------------------------------------------ main.py
\* variant: the returns overwrite the price tables they are computed from
main_calculate_returns_in_place ==
    /\ pc = "returns"
    /\ \E fm \in FillMethods :
         /\ fill_method' = fm
         /\ spy_returns' = calculate_returns(spy_prices, fm)
         /\ sector_returns' = calculate_returns(sector_prices, fm)
         /\ spy_prices' = calculate_returns(spy_prices, fm)
         /\ sector_prices' = calculate_returns(sector_prices, fm)
    /\ pc' = "clean"
    /\ UNCHANGED <<error, fetchVars, deviation_returns, artifacts, engVars,
                   reportVars>>

main_calculate_returns ==
    /\ pc = "returns"
    /\ \E fm \in FillMethods :
         /\ fill_method' = fm
         /\ spy_returns' = calculate_returns(spy_prices, fm)
         /\ sector_returns' = calculate_returns(sector_prices, fm)
    /\ pc' = "clean"
    /\ UNCHANGED <<error, fetchVars, spy_prices, sector_prices,
                   deviation_returns, artifacts, engVars, reportVars>>

main_clean_returns ==
    /\ pc = "clean"
    /\ spy_returns' = clean_returns_data(spy_returns)
    /\ sector_returns' = clean_returns_data(sector_returns)
    /\ pc' = "deviation"
    /\ UNCHANGED <<error, fill_method, fetchVars, spy_prices, sector_prices,
                   deviation_returns, artifacts, engVars, reportVars>>

main_deviation_returns ==
    /\ pc = "deviation"
    /\ deviation_returns' =
           calculate_deviation_returns(sector_returns, spy_returns)
    /\ pc' = "summary"
    /\ UNCHANGED <<error, fill_method, fetchVars, spy_prices, sector_prices,
                   spy_returns, sector_returns, artifacts, engVars, reportVars>>

\* get_returns_summary prints the statistics
main_returns_summary ==
    /\ pc = "summary"
    /\ summary' = get_returns_summary(spy_returns, sector_returns,
                                      deviation_returns)
    /\ pc' = "plot_deviation_returns_plotly"
    /\ UNCHANGED <<error, fill_method, fetchVars, dataVars, artifacts,
                   engVars, fig, ma_window>>

Next ==
    \/ fetch_spy_data
    \/ fetch_sector_step
    \/ fetch_sector_end
    \/ fetch_all_data_align
    \/ data_info
    \/ main_calculate_returns
    \/ main_clean_returns
    \/ main_deviation_returns
    \/ main_returns_summary
    \/ plot_deviation_returns_plotly
    \/ plot_cumulative_deviations_plotly
    \/ plot_sector_subplots_plotly
    \/ plot_moving_average_plotly_50day
    \/ plot_moving_average_plotly_100day
    \/ plot_moving_average_plotly_170day
    \/ plot_deviation_returns
    \/ plot_cumulative_deviations
    \/ plot_sector_subplots

Spec == Init /\ [][Next]_vars

\* ------------------------------------------------- the Returns Engine alone
\* One call of a Returns Engine function on arbitrary tables.
EngineColumns == <<1, 2>>

\* eng_in (eng_bench) is some Series over values of V
IsSeriesOver(t, V) ==
    \E S \in SUBSET Dates : \E v \in [S -> V] :
        t = [index |-> SortedSeq(S), val |-> v]

\* eng_in is some DataFrame with the columns EngineColumns over values of V
IsFrameOver(t, V) ==
    \E S \in SUBSET Dates : \E v \in [Range(EngineColumns) -> [S -> V]] :
        t = [index |-> SortedSeq(S), columns |-> EngineColumns, val |-> v]

PriceValues  == {Num(p) : p \in Prices} \cup {NaN}
ReturnValues == {Zero, One}

InitEngine ==
    /\ pc = "engine"
    /\ error = ""
    /\ fill_method = "unknown"
    /\ requests = [t \in Tickers |-> 0]
    /\ responded = [t \in Tickers |-> "none"]
    /\ quoted = [t \in Tickers |-> {}]
    /\ i = 1
    /\ sector_data = EmptyDict
    /\ failed_tickers = <<>>
    /\ warning = <<>>
    /\ spy_prices = EmptySeries
    /\ sector_prices = EmptyFrame
    /\ spy_returns = EmptySeries
    /\ sector_returns = EmptyFrame
    /\ deviation_returns = EmptyFrame
    /\ artifacts = <<>>
    /\ eng_out = EmptyFrame
    /\ summary = <<>>
    /\ fig = EmptyFrame
    /\ ma_window = 0
    /\ \/ /\ eng_op = "table"
          /\ \/ IsSeriesOver(eng_in, PriceValues)
             \/ IsFrameOver(eng_in, PriceValues)
          /\ eng_bench = EmptySeries
       \/ /\ eng_op = "pair"
          /\ IsFrameOver(eng_in, ReturnValues)
          /\ IsSeriesOver(eng_bench, ReturnValues)

engine_calculate_returns ==
    /\ eng_op = "table"
    /\ \E fm \in FillMethods :
         /\ fill_method' = fm
         /\ eng_out' = calculate_returns(eng_in, fm)
    /\ eng_op' = "calculate_returns"
    /\ UNCHANGED <<pc, error, fetchVars, dataVars, artifacts, eng_in,
                   eng_bench, reportVars>>

engine_clean_returns_data ==
    /\ eng_op = "table"
    /\ eng_out' = clean_returns_data(eng_in)
    /\ eng_op' = "clean_returns_data"
    /\ UNCHANGED <<pc, error, fill_method, fetchVars, dataVars, artifacts,
                   eng_in, eng_bench, reportVars>>

\* clean_returns_data applied to its own result
engine_clean_again ==
    /\ eng_op = "clean_returns_data"
    /\ eng_out' = clean_returns_data(eng_out)
    /\ eng_op' = "clean_again"
    /\ UNCHANGED <<pc, error, fill_method, fetchVars, dataVars, artifacts,
                   eng_in, eng_bench, reportVars>>

engine_calculate_deviation_returns ==
    /\ eng_op = "pair"
    /\ eng_out' = calculate_deviation_returns(eng_in, eng_bench)
    /\ eng_op' = "calculate_deviation_returns"
    /\ UNCHANGED <<pc, error, fill_method, fetchVars, dataVars, artifacts,
                   eng_in, eng_bench, reportVars>>

NextEngine ==
    \/ engine_calculate_returns
    \/ engine_clean_returns_data
    \/ engine_clean_again
    \/ engine_calculate_deviation_returns

SpecEngine == InitEngine /\ [][NextEngine]_vars

\* ------------------------------------------------ the pipeline of main alone
\* Phase 2 of main() on a benchmark series and a one-sector price table
\* that share the dates 1..n, with the prices of the sample data.
SampleSector == SECTOR_TICKERS[1]
SectorQuotes == {Num(100), Num(101), Num(102), NaN}
BenchmarkQuotes == {Num(400), Num(404)}

InitPipeline ==
    /\ pc = "returns"
    /\ error = ""
    /\ fill_method = "unknown"
    /\ requests = [t \in Tickers |-> 0]
    /\ responded = [t \in Tickers |-> "none"]
    /\ quoted = [t \in Tickers |-> {}]
    /\ i = 1
    /\ sector_data = EmptyDict
    /\ failed_tickers = <<>>
    /\ warning = <<>>
    /\ \E n \in 0..MaxDate :
         /\ \E v \in [1..n -> BenchmarkQuotes] :
              spy_prices = [index |-> SortedSeq(1..n), val |-> v]
         /\ \E v \in [1..n -> SectorQuotes] :
              sector_prices = [index |-> SortedSeq(1..n),
                               columns |-> <<SampleSector>>,
                               val |-> [c \in {SampleSector} |-> v]]
    /\ spy_returns = EmptySeries
    /\ sector_returns = EmptyFrame
    /\ deviation_returns = EmptyFrame
    /\ artifacts = <<>>
    /\ eng_op = "none"
    /\ eng_in = EmptyFrame
    /\ eng_bench = EmptySeries
    /\ eng_out = EmptyFrame
    /\ summary = <<>>
    /\ fig = EmptyFrame
    /\ ma_window = 0

NextPipeline ==
    \/ main_calculate_returns
    \/ main_clean_returns
    \/ main_deviation_returns

SpecPipeline == InitPipeline /\ [][NextPipeline]_vars

\* ------------------------------------------- the moving-average plots alone
\* The three moving-average plot functions called one after the other on an
\* arbitrary deviation table, each with a window argument of its own.
Windows == 1..MaxWindow
ChartValues == ReturnValues \cup {NaN}

InitCharts ==
    /\ pc = "plot_moving_average_plotly_50day"
    /\ error = ""
    /\ fill_method = "unknown"
    /\ requests = [t \in Tickers |-> 0]
    /\ responded = [t \in Tickers |-> "none"]
    /\ quoted = [t \in Tickers |-> {}]
    /\ i = 1
    /\ sector_data = EmptyDict
    /\ failed_tickers = <<>>
    /\ warning = <<>>
    /\ spy_prices = EmptySeries
    /\ sector_prices = EmptyFrame
    /\ spy_returns = EmptySeries
    /\ sector_returns = EmptyFrame
    /\ IsFrameOver(deviation_returns, ChartValues)
    /\ artifacts = <<>>
    /\ eng_op = "none"
    /\ eng_in = EmptyFrame
    /\ eng_bench = EmptySeries
    /\ eng_out = EmptyFrame
    /\ summary = <<>>
    /\ fig = EmptyFrame
    /\ ma_window = 0

charts_moving_average_50day ==
    \E w \in Windows :
        plot_moving_average("plot_moving_average_plotly_50day",
                            "plot_moving_average_plotly_100day",
                            w, "moving_average_50day.html")

charts_moving_average_100day ==
    \E w \in Windows :
        plot_moving_average("plot_moving_average_plotly_100day",
                            "plot_moving_average_plotly_170day",
                            w, "moving_average_100day.html")

charts_moving_average_170day ==
    \E w \in Windows :
        plot_moving_average("plot_moving_average_plotly_170day",
                            "plot_deviation_returns",
                            w, "moving_average_170day.html")

NextCharts ==
    \/ charts_moving_average_50day
    \/ charts_moving_average_100day
    \/ charts_moving_average_170day

SpecCharts == InitCharts /\ [][NextCharts]_vars

\* ===================================================================== claims
\* x is the exact difference a - b of two defined numbers
IsDifference(x, a, b) ==
    /\ x[2] > 0
    /\ x[1] * (a[2] * b[2]) = (a[1] * b[2] - b[1] * a[2]) * x[2]

\* x is the exact value of p / q - 1 for defined numbers p and q # 0
IsPctChange(x, p, q) ==
    /\ x[2] > 0
    /\ x[1] * (q[1] * p[2]) = (p[1] * q[2] - q[1] * p[2]) * x[2]

\* the cells of column c (or of the Series itself) of table t
Cells(t, c) == IF IsFrame(t) THEN t.val[c] ELSE t.val
ColumnsOf(t) == IF IsFrame(t) THEN Range(t.columns) ELSE {0}

StrictlyIncreasing(idx) ==
    \A m, n \in 1..Len(idx) : m < n => idx[m] < idx[n]

\* C1: when S and B share a date, calculate_deviation_returns(S, B) has
\* exactly the dates common to S and B, in increasing order, and its value
\* for every sector and date is S[d] - B[d].
C1_DeviationIsDifferenceOnCommonDates ==
    (eng_op = "calculate_deviation_returns"
     /\ Range(eng_in.index) \cap Range(eng_bench.index) # {})
    => /\ Range(eng_out.index)
            = Range(eng_in.index) \cap Range(eng_bench.index)
       /\ StrictlyIncreasing(eng_out.index)
       /\ eng_out.columns = eng_in.columns
       /\ \A c \in Range(eng_out.columns) :
            /\ DOMAIN eng_out.val[c] = Range(eng_out.index)
            /\ \A d \in Range(eng_out.index) :
                 IsDifference(eng_out.val[c][d], eng_in.val[c][d],
                              eng_bench.val[d])

C1_Witness ==
    /\ eng_op = "calculate_deviation_returns"
    /\ Range(eng_in.index) \ Range(eng_bench.index) # {}
    /\ Range(eng_bench.index) \ Range(eng_in.index) # {}
    /\ Len(eng_out.index) >= 1
    /\ \E c \in Range(eng_out.columns), d \in Range(eng_out.index) :
         eng_out.val[c][d] = Num(-1)

\* no cell of t is undefined
NoMissing(t) == \A d \in Range(t.index) : ~RowHasNaN(t, d)

\* C3: for a price series of length n >= 2 without missing values,
\* calculate_returns returns n entries on the same dates, the first
\* undefined, every later one equal to price[i]/price[i-1] - 1; a constant
\* series gives 0 at every defined entry.
C3_ReturnsOfCompletePrices ==
    (eng_op = "calculate_returns" /\ NoMissing(eng_in)
     /\ Len(eng_in.index) >= 2)
    => /\ eng_out.index = eng_in.index
       /\ \A c \in ColumnsOf(eng_in) :
            LET p == Cells(eng_in, c)
                r == Cells(eng_out, c)
                idx == eng_in.index
            IN  /\ DOMAIN r = Range(idx)
                /\ IsNaN(r[idx[1]])
                /\ \A n \in 2..Len(idx) :
                     IsPctChange(r[idx[n]], p[idx[n]], p[idx[n - 1]])
                /\ (\A m, n \in 1..Len(idx) : p[idx[m]] = p[idx[n]])
                   => \A n \in 2..Len(idx) : r[idx[n]] = Zero

C3_Witness ==
    /\ eng_op = "calculate_returns"
    /\ NoMissing(eng_in)
    /\ ~IsFrame(eng_in)
    /\ Len(eng_in.index) >= 2
    /\ eng_out.val[eng_in.index[2]] = Num(1)

\* C4: calculate_returns gives an undefined return at the first date and at
\* every date where the price or the previous price is missing (a missing
\* price is never replaced by an earlier known price).
C4_MissingPricePropagates ==
    eng_op = "calculate_returns"
    => \A c \in ColumnsOf(eng_in) :
         LET p == Cells(eng_in, c)
             r == Cells(eng_out, c)
             idx == eng_in.index
         IN  \A n \in 1..Len(idx) :
               (n = 1 \/ IsNaN(p[idx[n]]) \/ IsNaN(p[idx[n - 1]]))
               => IsNaN(r[idx[n]])

\* C5: clean_returns_data returns no undefined value, keeps every fully
\* defined row unchanged and in order, and removes exactly one row from a
\* table whose only undefined row is the first.
C5_CleanDropsExactlyUndefinedRows ==
    eng_op = "clean_returns_data"
    => /\ NoMissing(eng_out)
       /\ StrictlyIncreasing(eng_out.index)
       /\ Range(eng_out.index) \subseteq Range(eng_in.index)
       /\ \A d \in Range(eng_in.index) :
            ~RowHasNaN(eng_in, d)
            => /\ d \in Range(eng_out.index)
               /\ \A c \in ColumnsOf(eng_in) :
                    Cells(eng_out, c)[d] = Cells(eng_in, c)[d]
       /\ (/\ Len(eng_in.index) >= 1
           /\ \A n \in 1..Len(eng_in.index) :
                RowHasNaN(eng_in, eng_in.index[n]) <=> n = 1)
          => Len(eng_out.index) = Len(eng_in.index) - 1

C5_Witness ==
    /\ eng_op = "clean_returns_data"
    /\ IsFrame(eng_in)
    /\ Len(eng_in.index) = 3
    /\ \A n \in 1..3 : RowHasNaN(eng_in, eng_in.index[n]) <=> n = 1
    /\ Len(eng_out.index) = 2

\* C7: clean_returns_data applied to its own result changes nothing.
C7_CleanIsIdempotent ==
    eng_op = "clean_again" => eng_out = clean_returns_data(eng_in)

C7_Witness ==
    /\ eng_op = "clean_again"
    /\ Len(eng_out.index) >= 1
    /\ Len(eng_out.index) < Len(eng_in.index)
    /\ ~RowHasNaN(eng_in, eng_in.index[1])

\* ------------------------------------------------------- claims on the run
Sectors == Range(SECTOR_TICKERS)
Failed(t) == responded[t] \in {"raise", "empty"}
FailedSectors == LET failed(t) == Failed(t) IN SelectSeq(SECTOR_TICKERS, failed)
FetchedSectors == LET fetched(t) == ~Failed(t) IN SelectSeq(SECTOR_TICKERS, fetched)

PlotSteps ==
    {"plot_deviation_returns_plotly", "plot_cumulative_deviations_plotly",
     "plot_sector_subplots_plotly", "plot_moving_average_plotly_50day",
     "plot_moving_average_plotly_100day", "plot_moving_average_plotly_170day",
     "plot_deviation_returns", "plot_cumulative_deviations",
     "plot_sector_subplots"}

\* the run is in, or ended in, phase 3
InPhase3 ==
    \/ pc \in PlotSteps \cup {"done"}
    \/ pc = "error" /\ error = "AttributeError"

\* fetch_sector_data has returned or raised
SectorFetchEnded ==
    /\ responded[SPY_TICKER] = "data"
    /\ pc \notin {"fetch_spy", "fetch_sectors"}

SectorFetchFatal ==
    pc = "error" /\ error = "Failed to fetch data for all sectors"

\* C2: when the cleaned sector and benchmark returns share no date,
\* calculate_deviation_returns fails: the run never reaches the summary or
\* the charts with a deviation table that has no date.
C2_NoCommonDateIsAnError ==
    (pc = "summary" \/ InPhase3)
    => /\ intersection(sector_returns.index, spy_returns.index) # <<>>
       /\ deviation_returns.index # <<>>

\* main has applied clean_returns_data to both returns tables
ReturnsCleaned == pc = "deviation" \/ pc = "summary" \/ InPhase3

\* C6: in the run, clean_returns_data removes from the sector table every
\* date on which some sector's return is undefined, for all sectors, and
\* removes from the benchmark series exactly the dates on which the
\* benchmark return is undefined.
C6_CleanDropsRowsPerTable ==
    ReturnsCleaned
    => LET R  == calculate_returns(sector_prices, fill_method)
           Rb == calculate_returns(spy_prices, fill_method)
       IN  /\ Range(sector_returns.index)
                = {d \in Range(R.index) :
                     \A c \in Range(R.columns) : ~IsNaN(R.val[c][d])}
           /\ \A c \in Range(sector_returns.columns) :
                DOMAIN sector_returns.val[c] = Range(sector_returns.index)
           /\ Range(spy_returns.index)
                = {d \in Range(Rb.index) : ~IsNaN(Rb.val[d])}

C6_Witness ==
    /\ ReturnsCleaned
    /\ LET R == calculate_returns(sector_prices, fill_method)
       IN  \E d \in Range(R.index) : \E c1, c2 \in Range(R.columns) :
             /\ ~IsNaN(R.val[c1][d])
             /\ IsNaN(R.val[c2][d])
             /\ d \notin Range(sector_returns.index)
             /\ d \in Range(spy_returns.index)

\* C8: a sector whose fetch returns no row or raises is the only one
\* excluded: every sector is still requested, the Price Table has exactly
\* the sectors that succeeded, and fetch_sector_data raises if and only if
\* every sector failed.
C8_FailedSectorExcludedAlone ==
    SectorFetchEnded
    => /\ \A t \in Sectors : requests[t] >= 1 /\ responded[t] # "none"
       /\ SectorFetchFatal <=> (\A t \in Sectors : Failed(t))
       /\ (\E t \in Sectors : ~Failed(t))
          => /\ sector_prices.columns = FetchedSectors
             /\ \A t \in Range(FetchedSectors) :
                  \E d \in Range(sector_prices.index) :
                     ~IsNaN(sector_prices.val[t][d])

C8_Witness ==
    /\ pc = "align"
    /\ \E t, u \in Sectors : t < u /\ Failed(t) /\ ~Failed(u)
    /\ Len(sector_prices.columns) < Len(SECTOR_TICKERS)

BenchmarkLost  == Failed(SPY_TICKER)
AllSectorsLost == \A t \in Sectors : Failed(t)

\* C9: when the benchmark fetch fails or every sector fetch fails, the run
\* ends in an error before phase 2 and never writes an artifact.
C9_FatalFetchWritesNothing ==
    (BenchmarkLost \/ AllSectorsLost)
    => /\ artifacts = <<>>
       /\ spy_returns = EmptySeries
       /\ sector_returns = EmptyFrame
       /\ deviation_returns = EmptyFrame
       /\ BenchmarkLost => pc = "error"
       /\ AllSectorsLost
          => \/ pc = "error"
             \/ pc = "fetch_sectors" /\ i > Len(SECTOR_TICKERS)

C9_Witness ==
    /\ pc = "error"
    /\ responded[SPY_TICKER] = "data"
    /\ AllSectorsLost
    /\ \E t \in Sectors : responded[t] = "empty"
    /\ \E t \in Sectors : responded[t] = "raise"

\* C10: when some but not all sector fetches fail, the run completes and
\* the warning lists exactly the failed sectors, once each.
C10_PartialFailureCompletesWithWarning ==
    (/\ SectorFetchEnded
     /\ \E t \in Sectors : Failed(t)
     /\ \E t \in Sectors : ~Failed(t))
    => /\ pc # "error"
       /\ warning = FailedSectors

\* C11: no fetch is retried: the price history of each instrument is
\* requested at most once in a run, and an instrument whose request failed
\* has been requested exactly once.
C11_NoFetchIsRetried ==
    \A t \in Tickers :
       /\ requests[t] <= 1
       /\ responded[t] # "none" <=> requests[t] = 1

C11_Witness ==
    /\ pc = "align"
    /\ \E t, u \in Sectors :
         /\ responded[t] = "raise" /\ requests[t] = 1
         /\ responded[u] = "data" /\ requests[u] = 1
    /\ requests[SPY_TICKER] = 1

\* fetch_all_data has returned to main
Aligned ==
    \/ pc \in {"data_info", "returns", "clean", "deviation", "summary"}
    \/ InPhase3

\* every date on which the benchmark or a fetched sector was quoted
AllQuotedDates ==
    quoted[SPY_TICKER] \cup UNION {quoted[t] : t \in Range(FetchedSectors)}

C17_BenchmarkHasNoMissingPrice ==
    Aligned => \A d \in Range(spy_prices.index) : ~IsNaN(spy_prices.val[d])

\* the deviation table of the pipeline has been computed
DeviationComputed == pc = "summary" \/ InPhase3

\* the prices of the worked example
ExamplePrices ==
    /\ spy_prices.index = <<1, 2, 3>>
    /\ spy_prices.val = <<Num(400), Num(404), Num(400)>>
    /\ sector_prices.val[SampleSector] = <<Num(100), Num(102), Num(101)>>

\* C13: for the pipeline calculate_returns, clean_returns_data on each
\* input, calculate_deviation_returns, on a sector and a benchmark quoted on
\* the same n >= 2 dates with no missing price, the deviation table has
\* exactly the n-1 dates after the first and its value at date i is
\* sector[i]/sector[i-1] - bench[i]/bench[i-1]; for the sector prices
\* [100, 102, 101] and the benchmark prices [400, 404, 400] that is 1/100 at
\* date 2 and 101/102 - 400/404 = 1/10302 at date 3.
C13_WorkedPipelineExample ==
    (/\ DeviationComputed
     /\ Len(spy_prices.index) >= 2
     /\ NoMissing(spy_prices) /\ NoMissing(sector_prices))
    => /\ deviation_returns.index = Tail(spy_prices.index)
       /\ \A k \in 2..Len(spy_prices.index) :
            LET d == spy_prices.index[k]
                e == spy_prices.index[k - 1]
                s == sector_prices.val[SampleSector]
                b == spy_prices.val
            IN  deviation_returns.val[SampleSector][d]
                    = Sub(Div(s[d], s[e]), Div(b[d], b[e]))
       /\ ExamplePrices
          => /\ deviation_returns.val[SampleSector][2] = <<1, 100>>
             /\ deviation_returns.val[SampleSector][3] = <<1, 10302>>
             /\ <<1, 10302>> = Sub(<<101, 102>>, <<400, 404>>)

C13_Witness ==
    /\ pc = "summary"
    /\ ExamplePrices
    /\ Len(deviation_returns.index) = 2
    /\ deviation_returns.val[SampleSector][3] = <<1, 10302>>

\* get_returns_summary has printed the summary
Summarised == InPhase3

FullStatistics == {"count", "mean", "std", "min", "max"}

\* C14: get_returns_summary labels every column of the deviation table with
\* exactly one of three labels: 'outperformed' exactly when the mean of the
\* column is strictly positive, 'underperformed' exactly when it is strictly
\* negative, 'matched' exactly when the mean is zero.
C14_LabelIsSignOfMean ==
    Summarised
    => /\ DOMAIN summary.deviation = Range(deviation_returns.columns)
       /\ \A c \in Range(deviation_returns.columns) :
            LET line == summary.deviation[c]
            IN  /\ line.label \in {"outperformed", "underperformed",
                                   "matched"}
                /\ line.label = "outperformed" <=> Less(Zero, line.mean)
                /\ line.label = "underperformed" <=> Less(line.mean, Zero)
                /\ line.label = "matched" <=> line.mean = Zero

\* C15: the summary gives count, mean, standard deviation, min and max for
\* every series: the benchmark returns, the returns of each sector and the
\* deviation returns of each sector.
C15_FullStatisticsForEverySeries ==
    Summarised
    => /\ DOMAIN summary.spy = FullStatistics
       /\ \A c \in Range(sector_returns.columns) :
            DOMAIN summary.sector[c] = FullStatistics
       /\ \A c \in Range(deviation_returns.columns) :
            FullStatistics \subseteq DOMAIN summary.deviation[c]

\* C16: the Returns Engine functions leave the tables passed to them
\* unchanged: once fetch_all_data has returned, no later step of the run
\* changes the benchmark prices or the sector price table, and
\* calculate_deviation_returns leaves both returns tables as they were.
C16_PriceTablesNeverMutated ==
    [][/\ Aligned => /\ spy_prices' = spy_prices
                     /\ sector_prices' = sector_prices
       /\ pc = "deviation" => /\ spy_returns' = spy_returns
                              /\ sector_returns' = sector_returns]_vars

C16_Witness ==
    /\ pc = "done"
    /\ Len(spy_prices.index) >= 2
    /\ \E d \in Range(spy_prices.index) : ~RowHasNaN(sector_prices, d)
    /\ spy_returns.index # <<>>
    /\ deviation_returns.index # <<>>

\* the file of the moving-average plot that ran last
LastMovingAverageFile ==
    CASE pc = "plot_moving_average_plotly_100day" -> "moving_average_50day.html"
      [] pc = "plot_moving_average_plotly_170day" -> "moving_average_100day.html"
      [] pc = "plot_deviation_returns" -> "moving_average_170day.html"
      [] OTHER -> "none"

\* mean of the w values of column c that end at position k of the index
MeanOfLast(t, c, k, w) ==
    Div(SumSeq([j \in 1..w |-> t.val[c][t.index[k - w + j]]]), Num(w))

\* C18: for a deviation table with n rows, all defined, and a window
\* w >= 1, a moving-average plot function plots, per sector, the mean of
\* the w most recent deviation values at each date from the w-th on, so
\* exactly max(0, n - w + 1) dates; when n < w it returns an empty figure
\* and writes no HTML file.
C18_MovingAverageOfLastWindow ==
    (LastMovingAverageFile # "none" /\ NoMissing(deviation_returns))
    => LET n == Len(deviation_returns.index)
           w == ma_window
       IN  /\ w >= 1
           /\ Len(fig.index) = IF n - w + 1 > 0 THEN n - w + 1 ELSE 0
           /\ n < w => /\ fig = EmptyFrame
                       /\ LastMovingAverageFile \notin Range(artifacts)
           /\ n >= w
              => /\ fig.index = SubSeq(deviation_returns.index, w, n)
                 /\ fig.columns = deviation_returns.columns
                 /\ \A c \in Range(fig.columns) : \A k \in w..n :
                      fig.val[c][deviation_returns.index[k]]
                          = MeanOfLast(deviation_returns, c, k, w)
                 /\ LastMovingAverageFile \in Range(artifacts)

\* a window that fits two defined rows, then a window too long for them
C18_Witness ==
    /\ pc = "plot_deviation_returns"
    /\ NoMissing(deviation_returns)
    /\ Len(deviation_returns.index) = 2
    /\ ma_window = 3 /\ fig = EmptyFrame
    /\ artifacts = <<"moving_average_50day.html">>
    /\ \E c \in Range(deviation_returns.columns) :
         deviation_returns.val[c] = [d \in Range(deviation_returns.index)
                                       |-> IF d = deviation_returns.index[1]
                                           THEN Zero ELSE One]

\* the raw returns main computes from the aligned price tables
RawSpyReturns == calculate_returns(spy_prices, fill_method)
RawSectorReturns == calculate_returns(sector_prices, fill_method)

\* C19: in the run of main the deviation table has no undefined cell, and a
\* date is in it only if the benchmark return and the return of every
\* fetched sector are defined on it; so the deviation table starts no
\* earlier than the first defined return of any fetched sector.
C19_DeviationOnlyWhereAllReturnsDefined ==
    DeviationComputed
    => /\ NoMissing(deviation_returns)
       /\ \A d \in Range(deviation_returns.index) :
            /\ d \in Range(spy_prices.index)
            /\ ~IsNaN(RawSpyReturns.val[d])
            /\ \A c \in Range(FetchedSectors) :
                 /\ ~IsNaN(RawSectorReturns.val[c][d])
                 /\ ~IsNaN(deviation_returns.val[c][d])
                 /\ \E e \in Range(sector_prices.index) :
                      /\ e <= d
                      /\ ~IsNaN(RawSectorReturns.val[c][e])
                      /\ \A f \in Range(sector_prices.index) :
                           f < e => IsNaN(RawSectorReturns.val[c][f])

C19_Witness ==
    /\ pc = "done"
    /\ deviation_returns.index # <<>>
    /\ Len(deviation_returns.index) < Len(spy_prices.index)
    /\ Len(deviation_returns.columns) = NumSectors

\* C20: when fetch_sector_data ends, every configured sector is either
\* fetched or failed and never both; the columns of the returned price table
\* are the sectors whose fetch returned at least one row, in the order of
\* SECTOR_TICKERS, and the deviation table of main has exactly those columns.
C20_FetchedAndFailedPartitionSectors ==
    SectorFetchEnded
    => LET returned_rows(t) == responded[t] = "data"
           fetched == SelectSeq(SECTOR_TICKERS, returned_rows)
       IN  /\ \A t \in Sectors :
                /\ t \in Range(sector_data.keys) <=> returned_rows(t)
                /\ t \in Range(failed_tickers) <=> ~returned_rows(t)
           /\ sector_data.keys = fetched
           /\ ~SectorFetchFatal => sector_prices.columns = fetched
           /\ DeviationComputed => deviation_returns.columns = fetched

C20_Witness ==
    /\ pc = "plot_deviation_returns_plotly"
    /\ responded[SECTOR_TICKERS[1]] = "empty"
    /\ failed_tickers = <<SECTOR_TICKERS[1]>>
    /\ deviation_returns.columns = <<SECTOR_TICKERS[2]>>
    /\ deviation_returns.index # <<>>

\* calculate_returns has been called in this run
ReturnsComputed == fill_method # "unknown"

\* C21: the phases of a run are strictly ordered: a sector is requested
\* only after the benchmark fetch succeeded, so after a failed benchmark
\* fetch no sector is requested; returns are computed only after the
\* benchmark and at least one sector were fetched and every sector was
\* tried; a chart file is written only after the deviation table was
\* computed and summarised.
C21_PhasesAreStrictlyOrdered ==
    /\ \A t \in Sectors :
         requests[t] > 0 => /\ requests[SPY_TICKER] = 1
                            /\ responded[SPY_TICKER] = "data"
    /\ BenchmarkLost
       => /\ \A t \in Sectors : requests[t] = 0 /\ responded[t] = "none"
          /\ pc = "error" /\ ~ReturnsComputed /\ artifacts = <<>>
    /\ ReturnsComputed
       => /\ responded[SPY_TICKER] = "data"
          /\ \A t \in Sectors : responded[t] # "none"
          /\ \E t \in Sectors : responded[t] = "data"
          /\ Aligned \/ pc = "clean" \/ pc = "deviation"
    /\ artifacts # <<>>
       => /\ InPhase3
          /\ ReturnsComputed
          /\ summary # <<>>
          /\ summary = get_returns_summary(spy_returns, sector_returns,
                                           deviation_returns)
          /\ deviation_returns
                 = calculate_deviation_returns(sector_returns, spy_returns)

C21_Witness ==
    /\ pc = "done"
    /\ Len(artifacts) >= 2
    /\ summary # <<>>
    /\ \A t \in Tickers : requests[t] = 1 /\ responded[t] = "data"

====
